---- MODULE Spec2Model ----
(***************************************************************************)
(* The /api/sdf route of the OpenLL asset server (src/unnamed/part_000):   *)
(* a request-keyed build cache on the file system.  A cache entry is the   *)
(* directory output/<argHash>/, its lock marker is the file .locked in it, *)
(* and its artifacts are the files atlas.png and atlas.fnt.                *)
(*                                                                         *)
(* Node runs the route handler (lines 188-253) to the shell.exec call      *)
(* without interruption, and the exec callback (lines 244-252) likewise:   *)
(* each is one action.  The generator is an external program; what it      *)
(* writes becomes visible to the service when the callback runs.           *)
(* Requests that end as a cache hit or a lock conflict leave no trace in   *)
(* the program's state, so any number of them may arrive; the number of    *)
(* generator processes spawned in a run is bounded, and a build is named   *)
(* by its number.                                                          *)
(***************************************************************************)
EXTENDS Integers, FiniteSets, Sequences, TLC

\* ------------------------------------------------------------------ bounds
MaxBuilds == 2     \* generator processes spawned in one run
NumKeys == 2       \* distinct cache keys (values of argHash)
MaxFields == 4     \* fields in the query string of one request
MaxCodes == 3      \* character codes in one charcode value

Keys == 1..NumKeys

\* exit codes of llassetgen-cmd: 0 is success, anything else failure
ExitCodes == {0, 1}

\* A file's content: NoFile when the file does not exist, b > 0 for the
\* complete output of build b, -b for partial output left by build b.
NoFile == 0

VARIABLES
    dir,      \* dir[k]: fs.existsSync(outputDir) for key k
    lock,     \* lock[k]: fs.existsSync(outputDir + '.locked')
    files,    \* files[k]: contents of atlas.png and atlas.fnt in outputDir
    procs,    \* the requests in flight: a generator runs, its callback is pending
    nbuilds,  \* number of generator processes spawned so far
    ev,       \* the step just taken: the request handled or callback run (history)
    last,     \* last[k]: the latest build event on key k (history)
    orphan,   \* orphan[k]: a crash left the lock marker of k without a process (history)
    query     \* the query string a request is read from: <<name, value>> pairs

vars == <<dir, lock, files, procs, nbuilds, ev, last, orphan, query>>

\* ----------------------------------------------------------------- helpers

\* fs.existsSync(outputDir), line 227
Exists(k) == dir[k]

\* fs.existsSync(outputDir + '.locked'), line 228
\* (Locked_Any: faulty variant, one marker shared by all keys)
Locked_Any(k) == \E j \in Keys : lock[j]
Locked(k) == lock[k]

\* shell.rm(outputDir + '.locked'), line 245: removing a missing file
\* leaves the directory as it is
\* (Unlock_Skip: faulty variant, the marker is never removed)
Unlock_Skip(lk, k) == lk
Unlock_Toggle(lk, k) == [lk EXCEPT ![k] = ~lk[k]]
Unlock(lk, k) == [lk EXCEPT ![k] = FALSE]

\* The requests with a running generator on key k.
Running(k) == {p \in procs : p.key = k}

\* The entry states of the cache directory store, as the handler's two
\* existsSync calls distinguish them.
Lookup(k) ==
    IF ~Exists(k) THEN "Absent"
    ELSE IF Locked(k) THEN "Building"
    ELSE "Ready"

\* Lookup, with a lock marker that no running process stands behind told
\* apart from one of a build in flight (history: the code cannot tell).
Found(k) ==
    IF Lookup(k) = "Building" /\ Running(k) = {} THEN "Stale" ELSE Lookup(k)

\* sendFontFile: picks atlas.fnt or atlas.png by the fnt flag and sends it;
\* res.sendFile answers 404 when the file does not exist.
\* (faulty variants: the image whatever the flag; 200 for a missing file)
sendFontFile_PngOnly(fs, fnt) ==
    IF fs.png = NoFile
    THEN [code |-> 404, body |-> NoFile, ctype |-> "none", file |-> "atlas.png"]
    ELSE [code |-> 200, body |-> fs.png, ctype |-> "image/png",
          file |-> "atlas.png"]
sendFontFile_Blind(fs, fnt) ==
    [code |-> 200, body |-> IF fnt THEN fs.fnt ELSE fs.png,
     ctype |-> IF fnt THEN "text/plain" ELSE "image/png",
     file |-> IF fnt THEN "atlas.fnt" ELSE "atlas.png"]
sendFontFile(fs, fnt) ==
    LET extension == IF fnt THEN "fnt" ELSE "png"
        c == IF fnt THEN fs.fnt ELSE fs.png
    IN  IF c = NoFile
        THEN [code |-> 404, body |-> NoFile, ctype |-> "none",
              file |-> "atlas." \o extension]
        ELSE [code |-> 200, body |-> c,
              ctype |-> IF fnt THEN "text/plain" ELSE "image/png",
              file |-> "atlas." \o extension]

NoEvent ==
    [kind |-> "none", id |-> 0, key |-> 0, nocache |-> FALSE,
     ignorelock |-> FALSE, fnt |-> FALSE, from |-> "none", spawns |-> 0,
     exit |-> 0, code |-> 0, body |-> NoFile, ctype |-> "none",
     file |-> "none", diag |-> {}, errors |-> {}]

NoBuild == [ev |-> "none", id |-> 0, redo |-> FALSE, fnt |-> FALSE]

\* ------------------------------------------------- parameters and arguments
\* A string is a sequence of tokens; "," and " " are tokens of their own, so
\* that splitting and replacing act on them as the code does on characters.

\* the fields the route declares a validator for, lines 155-187
CliFields == <<"distfield", "packing", "glyph", "preset", "charcode",
               "fontsize", "fontname", "fontpath", "padding", "downsampling",
               "dsalgo", "dynamicrange">>
FlagFields == {"fnt", "nocache", "ignorelock"}
Fields == {CliFields[i] : i \in DOMAIN CliFields} \cup FlagFields

\* the integers of the model, as the tokens validator.isInt accepts
IntTokens == {ToString(64 + i) : i \in 1..(MaxCodes + 1)} \cup {"20", "-30"}

\* val.split(","): the pieces of v between its commas
RECURSIVE Split(_)
Split(v) ==
    IF \A i \in DOMAIN v : v[i] # ","
    THEN <<v>>
    ELSE LET i == CHOOSE j \in DOMAIN v :
                     v[j] = "," /\ \A h \in 1..(j - 1) : v[h] # ","
         IN  <<SubSeq(v, 1, i - 1)>> \o Split(SubSeq(v, i + 1, Len(v)))

\* validator.isInt of one piece
isInt(v) == Len(v) = 1 /\ v[1] \in IntTokens

\* val.replace(",", " "), lines 208 and 215: a string pattern replaces the
\* first occurrence only
ReplaceComma(v) ==
    IF \A i \in DOMAIN v : v[i] # ","
    THEN v
    ELSE LET i == CHOOSE j \in DOMAIN v :
                     v[j] = "," /\ \A h \in 1..(j - 1) : v[h] # ","
         IN  [v EXCEPT ![i] = " "]

\* the optional transform of cliParam, line 58: "replace" names the arrow
\* function of lines 208 and 215, "undefined" the omitted argument
Transform(transform, val) ==
    IF transform = "undefined" THEN val ELSE ReplaceComma(val)

\* req.query: the value of field n in query string q, q holding n
Value(q, n) == q[CHOOSE i \in DOMAIN q : q[i][1] = n][2]
Names(q) == {q[i][1] : i \in DOMAIN q}

\* the validation chains of the route, lines 155-187: the messages of the
\* chains that fail (errors.array())
validationErrors(q) ==
    LET has(n) == n \in Names(q)
        isIn(n, S) == has(n) => (Len(Value(q, n)) = 1 /\ Value(q, n)[1] \in S)
        optInt(n) == has(n) => isInt(Value(q, n))
        ints(n) == \A i \in DOMAIN Split(Value(q, n)) : isInt(Split(Value(q, n))[i])
    IN  {m \in {"distfield", "packing", "fontsize", "padding", "downsampling",
                "dsalgo", "dynamicrange",
                "one of preset, glyph, charcode required",
                "either fontname or fontpath required"} :
           CASE m = "distfield" -> ~isIn(m, {"deadrec", "parabola", "none"})
             [] m = "packing" -> ~isIn(m, {"maxrects", "shelf"})
             [] m = "dsalgo" -> ~isIn(m, {"average", "center", "min"})
             [] m \in {"fontsize", "padding", "downsampling"} -> ~optInt(m)
             [] m = "dynamicrange" ->
                   has(m) /\ ~(Len(Split(Value(q, m))) = 2 /\ ints(m))
             [] m = "one of preset, glyph, charcode required" ->
                   ~(\/ has("glyph")
                     \/ has("preset") /\ isIn("preset", {"ascii", "preset20180319"})
                     \/ has("charcode") /\ ints("charcode"))
             [] m = "either fontname or fontpath required" ->
                   ~(has("fontname") \/ has("fontpath"))}

\* matchedData(req, { locations: ['query'] }), line 194: the validated fields
\* the query string holds, whatever their order in it
matchedData(q) == [n \in Names(q) \cap Fields |-> Value(q, n)]

\* lines 196-201: the service's default for distfield, the flags as booleans
\* (distfieldOf_CliDefault: faulty variant, the default left to the CLI)
distfieldOf_CliDefault(params) ==
    IF "distfield" \in DOMAIN params THEN {params["distfield"]} ELSE {}
distfieldOf(params) ==
    IF "distfield" \in DOMAIN params /\ params["distfield"] = <<"none">>
    THEN {}
    ELSE {<<"parabola">>}

Normalize(params) ==
    [n \in ((DOMAIN params) \ {"distfield"}) \cup
            (IF distfieldOf(params) = {} THEN {} ELSE {"distfield"}) \cup FlagFields |->
        IF n = "distfield" THEN CHOOSE v \in distfieldOf(params) : TRUE
        ELSE IF n \in FlagFields THEN n \in DOMAIN params
        ELSE params[n]]

\* cliParam, lines 55-60
cliParam(params, key, transform, quote) ==
    IF key \notin DOMAIN params
    THEN <<>>
    ELSE <<"--" \o key, " ">> \o quote \o Transform(transform, params[key]) \o quote \o <<" ">>

Quote == <<"\"">>

\* the argument string, lines 203-215
RECURSIVE ArgsFrom(_, _)
ArgsFrom(params, i) ==
    IF i > Len(CliFields)
    THEN <<>>
    ELSE (IF CliFields[i] \in {"charcode", "dynamicrange"}
          THEN cliParam(params, CliFields[i], "replace", <<>>)
          ELSE cliParam(params, CliFields[i], "undefined", Quote))
         \o ArgsFrom(params, i + 1)

\* (Args_QueryOrder: faulty variant, the arguments in the order of the query)
RECURSIVE ArgsInQueryOrder(_, _)
ArgsInQueryOrder(q, i) ==
    IF i > Len(q)
    THEN <<>>
    ELSE (IF q[i][1] \in FlagFields \/ q[i][1] \notin DOMAIN Normalize(matchedData(q))
          THEN <<>>
          ELSE cliParam(Normalize(matchedData(q)), q[i][1], "undefined", Quote))
         \o ArgsInQueryOrder(q, i + 1)

Args_QueryOrder(q) == ArgsInQueryOrder(q, 1)
Args(q) == ArgsFrom(Normalize(matchedData(q)), 1)

\* line 225: the sha1 digest of the argument string in a file-name alphabet,
\* taken to be free of collisions
argHash(args) == [sha1 |-> args]

\* line 226
outputDir(q) == <<"output/", argHash(Args(q)), "/">>

\* -------------------------------------------------------------------- Init
Init ==
    /\ dir = [k \in Keys |-> FALSE]
    /\ lock = [k \in Keys |-> FALSE]
    /\ files = [k \in Keys |-> [png |-> NoFile, fnt |-> NoFile]]
    /\ procs = {}
    /\ nbuilds = 0
    /\ ev = NoEvent
    /\ last = [k \in Keys |-> NoBuild]
    /\ orphan = [k \in Keys |-> "no"]
    /\ query = <<>>

\* ----------------------------------------------------------------- actions

\* The decision of the handler, lines 227-242: "conflict", "hit" or "build";
\* mk tells whether the else branch (mkdir + touch .locked) is taken.
\* Faulty variants: nocache without effect, a Ready entry never served,
\* ignorelock without effect, the else branch without mkdir and touch.
Decide_NocacheIgnored(exists, locked, nocache, ignorelock) ==
    IF exists
    THEN IF locked
         THEN IF ~ignorelock THEN [out |-> "conflict", mk |-> FALSE]
              ELSE [out |-> "build", mk |-> FALSE]
         ELSE [out |-> "hit", mk |-> FALSE]
    ELSE [out |-> "build", mk |-> TRUE]
Decide_NoHit(exists, locked, nocache, ignorelock) ==
    IF exists /\ ~nocache /\ locked
    THEN IF ~ignorelock THEN [out |-> "conflict", mk |-> FALSE]
         ELSE [out |-> "build", mk |-> FALSE]
    ELSE [out |-> "build", mk |-> TRUE]
Decide_NoOverride(exists, locked, nocache, ignorelock) ==
    IF exists /\ ~nocache
    THEN IF locked THEN [out |-> "conflict", mk |-> FALSE]
         ELSE [out |-> "hit", mk |-> FALSE]
    ELSE [out |-> "build", mk |-> TRUE]
Decide_NoTouch(exists, locked, nocache, ignorelock) ==
    IF exists /\ ~nocache
    THEN IF locked
         THEN IF ~ignorelock THEN [out |-> "conflict", mk |-> FALSE]
              ELSE [out |-> "build", mk |-> FALSE]
         ELSE [out |-> "hit", mk |-> FALSE]
    ELSE [out |-> "build", mk |-> FALSE]
Decide(exists, locked, nocache, ignorelock) ==
    IF exists /\ ~nocache
    THEN IF locked
         THEN IF ~ignorelock THEN [out |-> "conflict", mk |-> FALSE]
              ELSE [out |-> "build", mk |-> FALSE]
         ELSE [out |-> "hit", mk |-> FALSE]
    ELSE [out |-> "build", mk |-> TRUE]

\* (HandleSdf_TouchFirst: faulty variant, the lock marker is touched before
\* the directory is looked up, so a hit or a conflict leaves it behind)
HandleSdf_TouchFirst(k, nocache, ignorelock, fnt) ==
    LET b == nbuilds + 1
        d == Decide(Exists(k), Locked(k), nocache, ignorelock)
        e == [NoEvent EXCEPT !.kind = "request", !.key = k,
                 !.nocache = nocache, !.ignorelock = ignorelock,
                 !.fnt = fnt, !.from = Found(k)]
    IN     CASE d.out = "conflict" ->
                     /\ ev' = [e EXCEPT !.code = 503]
                     /\ lock' = [lock EXCEPT ![k] = TRUE]
                     /\ UNCHANGED <<dir, files, procs, nbuilds, last, orphan>>
                [] d.out = "hit" ->
                     /\ LET s == sendFontFile(files[k], fnt)
                        IN ev' = [e EXCEPT !.code = s.code, !.body = s.body,
                                     !.ctype = s.ctype, !.file = s.file]
                     /\ lock' = [lock EXCEPT ![k] = TRUE]
                     /\ UNCHANGED <<dir, files, procs, nbuilds, last, orphan>>
                [] d.out = "build" ->
                     /\ nbuilds < MaxBuilds
                     /\ nbuilds' = b
                     /\ dir' = [dir EXCEPT ![k] = TRUE]
                     /\ lock' = [lock EXCEPT ![k] = TRUE]
                     /\ ev' = [e EXCEPT !.id = b, !.spawns = 1]
                     /\ procs' = procs \cup
                           {[id |-> b, key |-> k, nocache |-> nocache,
                             ignorelock |-> ignorelock, fnt |-> fnt,
                             from |-> Found(k),
                             spawns |-> 1]}
                     /\ last' = [last EXCEPT ![k] =
                           [ev |-> "spawn", id |-> b,
                            redo |-> (nocache /\ Found(k) = "Ready"),
                            fnt |-> fnt]]
                     /\ orphan' = IF ignorelock /\ orphan[k] = "yes"
                                  THEN [orphan EXCEPT ![k] = "overridden"]
                                  ELSE orphan
                     /\ UNCHANGED files

\* GET /api/sdf with valid parameters whose argument string hashes to k.
HandleSdf(k, nocache, ignorelock, fnt) ==
    LET b == nbuilds + 1
        d == Decide(Exists(k), Locked(k), nocache, ignorelock)
        e == [NoEvent EXCEPT !.kind = "request", !.key = k,
                 !.nocache = nocache, !.ignorelock = ignorelock,
                 !.fnt = fnt, !.from = Found(k)]
    IN     CASE d.out = "conflict" ->
                     /\ ev' = [e EXCEPT !.code = 503]
                     /\ UNCHANGED <<dir, lock, files, procs, nbuilds, last, orphan>>
                [] d.out = "hit" ->
                     /\ LET s == sendFontFile(files[k], fnt)
                        IN ev' = [e EXCEPT !.code = s.code, !.body = s.body,
                                     !.ctype = s.ctype, !.file = s.file]
                     /\ UNCHANGED <<dir, lock, files, procs, nbuilds, last, orphan>>
                [] d.out = "build" ->
                     \* shell.mkdir / shell.touch (else branch), then shell.exec
                     /\ nbuilds < MaxBuilds
                     /\ nbuilds' = b
                     /\ dir' = IF d.mk THEN [dir EXCEPT ![k] = TRUE] ELSE dir
                     /\ lock' = IF d.mk THEN [lock EXCEPT ![k] = TRUE] ELSE lock
                     /\ ev' = [e EXCEPT !.id = b, !.spawns = 1]
                     /\ procs' = procs \cup
                           {[id |-> b, key |-> k, nocache |-> nocache,
                             ignorelock |-> ignorelock, fnt |-> fnt,
                             from |-> Found(k),
                             spawns |-> 1]}
                     /\ last' = [last EXCEPT ![k] =
                           [ev |-> "spawn", id |-> b,
                            redo |-> (nocache /\ Found(k) = "Ready"),
                            fnt |-> fnt]]
                     /\ orphan' = IF ignorelock /\ orphan[k] = "yes"
                                  THEN [orphan EXCEPT ![k] = "overridden"]
                                  ELSE orphan
                     /\ UNCHANGED files

\* The query strings of the requests to the cache: font k with the ascii
\* preset and any of the three flags, and query strings that lack the glyph
\* selection, the font, or both.
FontName(k) == <<"Font", ToString(k)>>
Flag(n, on) == IF on THEN <<<<n, <<"1">>>>>> ELSE <<>>
KeyQuery(k) == <<<<"preset", <<"ascii">>>>, <<"fontname", FontName(k)>>>>
SdfQueries ==
    {KeyQuery(k) \o Flag("fnt", f) \o Flag("nocache", n) \o Flag("ignorelock", i) :
        k \in Keys, f \in BOOLEAN, n \in BOOLEAN, i \in BOOLEAN}
    \cup {<<>>, <<<<"preset", <<"ascii">>>>>>, <<<<"fontname", FontName(1)>>>>}

\* The number of the cache key: key k is the digest of the argument string
\* of the requests for font k.
KeyOf(digest) == CHOOSE k \in Keys : digest = argHash(Args(KeyQuery(k)))

\* line 191: res.status(400).json({ errors: errors.array() })
\* (validationFailed_NoStatus: faulty variant, the status left at 200)
validationFailed_NoStatus(errors) == [code |-> 200, errors |-> errors]
validationFailed(errors) == [code |-> 400, errors |-> errors]

\* Lines 189-226 on query string q: the validation result, the normalised
\* parameters and the cache key (computed once for each query string).
Prepared ==
    [q \in SdfQueries |->
        LET errors == validationErrors(q)
        IN  [errors |-> errors,
             reply |-> validationFailed(errors),
             params |-> Normalize(matchedData(q)),
             key |-> IF errors # {} THEN 0 ELSE KeyOf(argHash(Args(q)))]]

\* The route handler, lines 188-253, on query string q.
Sdf(q) ==
    LET p == Prepared[q]
    IN  /\ UNCHANGED query
        /\ IF p.errors # {}
           THEN /\ ev' = [NoEvent EXCEPT !.kind = "request",
                              !.code = p.reply.code, !.errors = p.reply.errors]
                /\ UNCHANGED <<dir, lock, files, procs, nbuilds, last, orphan>>
           ELSE HandleSdf(p.key, p.params["nocache"], p.params["ignorelock"],
                          p.params["fnt"])

\* Keys are numbered in the order in which their directories come to be:
\* the first request for a new argument string is the one for the lowest
\* key without a directory.
Numbered(q) == Prepared[q].key > 1 => dir[Prepared[q].key - 1]

Request ==
    \E q \in SdfQueries : Numbered(q) /\ Sdf(q)

\* What the generator of build r leaves in the directory when it exits with
\* `code`: on 0 the image and (the command line always has --fnt) the
\* metrics file; otherwise the files are untouched or partially written.
GenOutputs(fs, r, code) ==
    IF code = 0
    THEN {[png |-> r, fnt |-> r]}
    ELSE {fs, [png |-> -r, fnt |-> -r]}

\* (faulty variants of the callback: ExecCallback_Retry runs the generator
\* again after a failure instead of answering; ExecCallback_Cleanup removes
\* the directory of a failed build)
ExecCallback_Retry(p, code) ==
    /\ p \in procs
    /\ LET k == p.key
           e == [NoEvent EXCEPT !.kind = "exit", !.id = p.id, !.key = k,
                    !.nocache = p.nocache, !.ignorelock = p.ignorelock,
                    !.fnt = p.fnt, !.from = p.from, !.exit = code]
       IN  \E out \in GenOutputs(files[k], p.id, code) :
             /\ files' = [files EXCEPT ![k] = out]
             /\ lock' = Unlock(lock, k)
             /\ last' = [last EXCEPT ![k] =
                           [ev |-> IF code = 0 THEN "ok" ELSE "fail", id |-> p.id,
                            redo |-> (p.nocache /\ p.from = "Ready"),
                            fnt |-> p.fnt]]
             /\ IF code # 0 /\ p.spawns = 1
                THEN /\ procs' = (procs \ {p}) \cup {[p EXCEPT !.spawns = 2]}
                     /\ ev' = [e EXCEPT !.spawns = 2]
                ELSE /\ procs' = procs \ {p}
                     /\ IF code # 0
                        THEN ev' = [e EXCEPT !.spawns = p.spawns, !.code = 500,
                                       !.diag = {"stdout"}]
                        ELSE LET s == sendFontFile(out, p.fnt)
                             IN ev' = [e EXCEPT !.spawns = p.spawns,
                                          !.code = s.code, !.body = s.body,
                                          !.ctype = s.ctype, !.file = s.file]
    /\ UNCHANGED <<dir, nbuilds, orphan, query>>

ExecCallback_Cleanup(p, code) ==
    /\ p \in procs
    /\ LET k == p.key
           e == [NoEvent EXCEPT !.kind = "exit", !.id = p.id, !.key = k,
                    !.nocache = p.nocache, !.ignorelock = p.ignorelock,
                    !.fnt = p.fnt, !.from = p.from, !.spawns = p.spawns,
                    !.exit = code]
       IN  \E out \in GenOutputs(files[k], p.id, code) :
             /\ lock' = Unlock(lock, k)
             /\ procs' = procs \ {p}
             /\ last' = [last EXCEPT ![k] =
                           [ev |-> IF code = 0 THEN "ok" ELSE "fail", id |-> p.id,
                            redo |-> (p.nocache /\ p.from = "Ready"),
                            fnt |-> p.fnt]]
             /\ IF code # 0
                THEN /\ ev' = [e EXCEPT !.code = 500, !.diag = {"stdout"}]
                     /\ dir' = [dir EXCEPT ![k] = FALSE]
                     /\ files' = [files EXCEPT ![k] = [png |-> NoFile, fnt |-> NoFile]]
                ELSE /\ LET s == sendFontFile(out, p.fnt)
                        IN ev' = [e EXCEPT !.code = s.code, !.body = s.body,
                                     !.ctype = s.ctype, !.file = s.file]
                     /\ dir' = dir
                     /\ files' = [files EXCEPT ![k] = out]
    /\ UNCHANGED <<nbuilds, orphan, query>>

\* The generator of request p exits with `code` and the exec callback runs:
\* shell.rm of the lock marker, then 500 or sendFontFile.
ExecCallback(p, code) ==
    /\ p \in procs
    /\ LET k == p.key
           e == [NoEvent EXCEPT !.kind = "exit", !.id = p.id, !.key = k,
                    !.nocache = p.nocache, !.ignorelock = p.ignorelock,
                    !.fnt = p.fnt, !.from = p.from, !.spawns = p.spawns,
                    !.exit = code]
       IN  \E out \in GenOutputs(files[k], p.id, code) :
             /\ files' = [files EXCEPT ![k] = out]
             /\ lock' = Unlock(lock, k)
             /\ procs' = procs \ {p}
             /\ last' = [last EXCEPT ![k] =
                           [ev |-> IF code = 0 THEN "ok" ELSE "fail", id |-> p.id,
                            redo |-> (p.nocache /\ p.from = "Ready"),
                            fnt |-> p.fnt]]
             /\ IF code # 0
                THEN ev' = [e EXCEPT !.code = 500, !.diag = {"stdout"}]
                ELSE LET s == sendFontFile(out, p.fnt)
                     IN ev' = [e EXCEPT !.code = s.code, !.body = s.body,
                                  !.ctype = s.ctype, !.file = s.file]
    /\ UNCHANGED <<dir, nbuilds, orphan, query>>

Exit ==
    \E p \in procs, code \in ExitCodes : ExecCallback(p, code)

\* The service process dies mid-build and is restarted: the generators die
\* with it, no callback runs, the requests in flight get no response, and
\* the file system stays as it is.
Crash ==
    /\ procs # {}
    /\ procs' = {}
    /\ ev' = [NoEvent EXCEPT !.kind = "crash"]
    /\ last' = [k \in Keys |->
                 IF Running(k) # {} THEN [NoBuild EXCEPT !.ev = "crash"] ELSE last[k]]
    /\ orphan' = [k \in Keys |->
                 IF Running(k) # {} /\ lock[k] THEN "yes" ELSE orphan[k]]
    /\ UNCHANGED <<dir, lock, files, nbuilds, query>>

Next == Request \/ Exit \/ Crash

Spec == Init /\ [][Next]_vars

\* Runs in which the service process stays up and every generator that was
\* spawned exits: shell.exec calls the callback of each child when it does.
LiveNext == Request \/ Exit

Exits(id) ==
    \E p \in procs, code \in ExitCodes : p.id = id /\ ExecCallback(p, code)

LiveSpec ==
    Init /\ [][LiveNext]_vars /\ \A id \in 1..MaxBuilds : WF_vars(Exits(id))

\* Runs in which no request sets nocache or ignorelock.
PlainQueries ==
    {q \in SdfQueries : Names(q) \cap {"nocache", "ignorelock"} = {}}

PlainRequest ==
    \E q \in PlainQueries : Numbered(q) /\ Sdf(q)

PlainNext == PlainRequest \/ Exit \/ Crash

PlainSpec == Init /\ [][PlainNext]_vars

\* ---------------------------------------- the argument string by itself
\* The query strings of the model: up to MaxFields of these fields, in any
\* order, no field twice.
Codes(n) == [i \in 1..(2 * n - 1) |->
               IF i % 2 = 0 THEN "," ELSE ToString(64 + (i + 1) \div 2)]
FieldPool ==
    {<<"distfield", <<v>>>> : v \in {"deadrec", "parabola", "none"}}
    \cup {<<"charcode", Codes(n)>> : n \in 1..MaxCodes}
    \cup {<<"preset", <<"ascii">>>>, <<"glyph", <<"ab">>>>,
          <<"fontname", <<"Arial">>>>, <<"fontpath", <<"/fonts/a.ttf">>>>,
          <<"dynamicrange", <<"-30", ",", "20">>>>,
          <<"fnt", <<"1">>>>, <<"nocache", <<"1">>>>, <<"ignorelock", <<"1">>>>}

\* One more field is read off the query string of the request.
AddField ==
    /\ Len(query) < MaxFields
    /\ \E f \in FieldPool :
          /\ f[1] \notin Names(query)
          /\ query' = Append(query, f)
    /\ UNCHANGED <<dir, lock, files, procs, nbuilds, ev, last, orphan>>

ArgNext == AddField

ArgSpec == Init /\ [][ArgNext]_vars

\* ------------------------------------------------------------- properties

\* The state of the entry of k on the file system: Absent (no directory),
\* Building (directory with the lock marker), Ready (directory without it).
Entry(k) ==
    IF ~dir[k] THEN "Absent" ELSE IF lock[k] THEN "Building" ELSE "Ready"

\* The step is the handling of a request for key k.
Arrives(k) == ev'.kind = "request" /\ ev'.key = k

\* The request handled by the step spawned no generator process.
NoSpawn == ev'.spawns = 0 /\ procs' = procs /\ nbuilds' = nbuilds

\* The request handled by the step spawned a generator on the directory of k.
Spawned(k) ==
    /\ ev'.spawns = 1
    /\ ev'.code = 0
    /\ \E p \in procs' \ procs : p.key = k /\ p.id = ev'.id
    /\ Cardinality(procs') = Cardinality(procs) + 1

\* C1: of two requests with the same key, the second arriving while the
\* generator of the first is running and neither setting ignorelock, only the
\* first spawns a generator: the second is answered 503 and spawns nothing.
C1_SecondRequestConflicts ==
    [][\A k \in Keys :
         (/\ Arrives(k)
          /\ Entry(k) = "Building"
          /\ Running(k) # {}
          /\ ~ev'.ignorelock
          /\ \A p \in Running(k) : ~p.ignorelock)
         => (ev'.code = 503 /\ NoSpawn)]_vars

\* C2: at most one generator runs on the directory of a key, unless one of
\* the running builds was started by a request that set ignorelock.
C2_OneBuildPerKey ==
    \A k \in Keys :
        \/ Cardinality(Running(k)) <= 1
        \/ \E p \in Running(k) : p.ignorelock

\* C3: a request that finds the directory with the .locked marker in it and
\* does not set ignorelock is answered 503 and spawns nothing, whatever its
\* other flags are.
C3_LockedRejects ==
    [][\A k \in Keys :
         (Arrives(k) /\ Entry(k) = "Building" /\ ~ev'.ignorelock)
         => (ev'.code = 503 /\ NoSpawn)]_vars

\* C4: a request without nocache that arrives after a build of its key
\* exited with code 0, with no other build of the key since or running,
\* spawns nothing and is sent the artifact that build produced.
C4_HitAfterSuccess ==
    [][\A k \in Keys :
         (/\ Arrives(k)
          /\ ~ev'.nocache
          /\ last[k].ev = "ok"
          /\ Running(k) = {})
         => (NoSpawn /\ ev'.code = 200 /\ ev'.body = last[k].id)]_vars

C4_Witness ==
    /\ ev.kind = "request"
    /\ ~ev.nocache
    /\ ev.spawns = 0
    /\ ev.code = 200
    /\ last[ev.key].ev = "ok"
    /\ Running(ev.key) = {}
    /\ ev.body = last[ev.key].id

\* C5: after a build exited with a non-zero code, the next request for the
\* key with nocache and ignorelock unset spawns a generator.
C5_RebuildAfterFailure ==
    [][\A k \in Keys :
         (/\ Arrives(k)
          /\ ~ev'.nocache
          /\ ~ev'.ignorelock
          /\ last[k].ev = "fail")
         => Spawned(k)]_vars

\* C6: a request with ignorelock that finds the lock marker is not
\* rejected: in the same step it spawns a generator on the same directory,
\* next to the builds already running, and it ends with the artifact (200)
\* or with the build failure (500).
C6_IgnorelockOverrides ==
    [][\A k \in Keys :
         /\ (Arrives(k) /\ ev'.ignorelock /\ Entry(k) = "Building")
            => (Spawned(k) /\ Running(k) \subseteq procs' /\ dir' = dir)
         /\ (/\ ev'.kind = "exit"
             /\ ev'.key = k
             /\ ev'.ignorelock
             /\ ev'.from \in {"Building", "Stale"})
            => ev'.code \in {200, 500}]_vars

C6_Witness ==
    /\ ev.kind = "exit"
    /\ ev.ignorelock
    /\ ev.from = "Building"
    /\ ev.code = 200
    /\ Running(ev.key) # {}

\* C7: a request with nocache that finds a Ready entry spawns a generator
\* on the directory of the same key (no directory is created) whose output
\* is none of the files present; and once that generator exited with 0, a
\* request for the key without nocache spawns nothing and is sent the
\* artifact of that rebuild.
C7_NocacheRebuilds ==
    [][\A k \in Keys :
         /\ (Arrives(k) /\ ev'.nocache /\ Entry(k) = "Ready")
            => (/\ Spawned(k)
                /\ dir' = dir
                /\ ev'.id \notin {files[k].png, files[k].fnt})
         /\ (/\ Arrives(k)
             /\ ~ev'.nocache
             /\ last[k].ev = "ok"
             /\ last[k].redo)
            => (NoSpawn /\ ev'.code = 200 /\ ev'.body = last[k].id)]_vars

C7_Witness ==
    /\ ev.kind = "request"
    /\ ~ev.nocache
    /\ ev.code = 200
    /\ last[ev.key].ev = "ok"
    /\ last[ev.key].redo
    /\ ev.body = last[ev.key].id
    /\ ev.body > 1

\* C8: when a crash left a lock marker without a process, a request with
\* ignorelock whose generator exits with 0 is sent its artifact, and the
\* entry is Ready afterwards: requests without nocache are then cache hits.
C8_IgnorelockRecovers ==
    [][\A k \in Keys :
         /\ (/\ ev'.kind = "exit"
             /\ ev'.key = k
             /\ ev'.ignorelock
             /\ ev'.from = "Stale"
             /\ ev'.exit = 0)
            => (ev'.code = 200 /\ ev'.body = ev'.id /\ Entry(k)' = "Ready")
         /\ (/\ Arrives(k)
             /\ ~ev'.nocache
             /\ orphan[k] = "overridden"
             /\ last[k].ev = "ok")
            => (NoSpawn /\ ev'.code = 200)]_vars

C8_Witness ==
    /\ ev.kind = "exit"
    /\ ev.ignorelock
    /\ ev.from = "Stale"
    /\ ev.exit = 0
    /\ ev.code = 200
    /\ Entry(ev.key) = "Ready"

\* C9: a lock marker that a crash left without a process stays present as
\* long as no request with ignorelock has been handled for the key.
C9_OrphanLockStays ==
    \A k \in Keys : orphan[k] = "yes" => lock[k]

\* The outcome of the request handled by the step.
Outcome ==
    IF ev'.spawns = 1 THEN "build"
    ELSE IF ev'.code = 503 THEN "conflict" ELSE "hit"

\* The outcome as the entry of the request's own key and its flags give it.
Expected(entry, nocache, ignorelock) ==
    CASE entry = "Absent" -> "build"
      [] entry = "Ready" -> IF nocache THEN "build" ELSE "hit"
      [] entry = "Building" ->
            IF nocache \/ ignorelock THEN "build" ELSE "conflict"

\* C10: requests with different keys do not contend: a step for one key
\* leaves the directory, lock marker, files and builds of every other key
\* as they are, and the outcome of a request is given by the entry of its
\* own key and its flags alone.
C10_KeysIndependent ==
    [][\A k \in Keys :
         /\ (ev'.kind \in {"request", "exit"} /\ ev'.key # k)
            => (/\ dir'[k] = dir[k]
                /\ lock'[k] = lock[k]
                /\ files'[k] = files[k]
                /\ Running(k)' = Running(k))
         /\ Arrives(k)
            => Outcome = Expected(Entry(k), ev'.nocache, ev'.ignorelock)]_vars

C10_Witness ==
    \E p \in procs, q \in procs : p.key # q.key

\* ------------------------------------- properties of the argument string

\* q with its fields i and i+1 exchanged (every reordering of a query string
\* is a chain of such exchanges)
Swap(q, i) == [q EXCEPT ![i] = q[i + 1], ![i + 1] = q[i]]

IsCli(f) == f[1] \notin FlagFields
StripFlags(q) == SelectSeq(q, IsCli)

\* the string s occurs in the argument string a
Contains(a, s) ==
    \E i \in 0..(Len(a) - Len(s)) : SubSeq(a, i + 1, i + Len(s)) = s

\* C11: requests with the same values of the CLI-relevant fields have the
\* same argument string and output directory, in whatever order the query
\* string holds the fields and whatever fnt, nocache and ignorelock are.
C11_SameFieldsSameKey ==
    LET args == Args(query)
        dir0 == outputDir(query)
    IN  /\ \A i \in 1..(Len(query) - 1) :
              /\ Args(Swap(query, i)) = args
              /\ outputDir(Swap(query, i)) = dir0
        /\ Args(StripFlags(query)) = args
        /\ outputDir(StripFlags(query)) = dir0

C11_Witness ==
    /\ Len(query) = 3
    /\ query[1][1] = "fontname"
    /\ query[2][1] = "nocache"
    /\ query[3][1] = "preset"
    /\ Args(query) = Args(<<query[3], query[1]>>)

\* C12: two valid requests that differ in the value of one CLI-relevant
\* field have different argument strings.
C12_FieldChangesArgs ==
    validationErrors(query) = {} =>
        \A i \in DOMAIN query, f \in FieldPool :
            (/\ IsCli(f)
             /\ f[1] = query[i][1]
             /\ f[2] # query[i][2]
             /\ validationErrors([query EXCEPT ![i] = f]) = {})
            => Args([query EXCEPT ![i] = f]) # Args(query)

\* C15: with distfield unset the argument string starts with
\* --distfield "parabola"; with distfield none it has no --distfield.
C15_DistfieldDefault ==
    /\ "distfield" \notin Names(query)
       => /\ Len(Args(query)) >= 6
          /\ SubSeq(Args(query), 1, 6) =
                <<"--distfield", " ", "\"", "parabola", "\"", " ">>
    /\ ("distfield" \in Names(query) /\ Value(query, "distfield") = <<"none">>)
       => \A i \in DOMAIN Args(query) : Args(query)[i] # "--distfield"

C15_Witness ==
    /\ validationErrors(query) = {}
    /\ "distfield" \in Names(query)
    /\ Value(query, "distfield") = <<"none">>
    /\ Args(query) # <<>>
    /\ ~Contains(Args(query), <<"--distfield">>)

\* C16: with distfield deadrec or parabola the argument string has
\* --distfield with the algorithm asked for.
C16_DistfieldAsAsked ==
    ("distfield" \in Names(query)
        /\ Value(query, "distfield") \in {<<"deadrec">>, <<"parabola">>})
    => Contains(Args(query),
          <<"--distfield", " ", "\"">> \o Value(query, "distfield") \o <<"\"", " ">>)

\* the number of the fields of S that query string q holds
Count(q, S) == Cardinality(Names(q) \cap S)

\* C18: a request that passes validation has exactly one of glyph, preset
\* and charcode and exactly one of fontname and fontpath.
C18_ExactlyOne ==
    validationErrors(query) = {} =>
        /\ Count(query, {"glyph", "preset", "charcode"}) = 1
        /\ Count(query, {"fontname", "fontpath"}) = 1

\* C25: for a charcode of n integers between commas the argument string
\* has --charcode followed by the n integers between spaces, and no comma.
C25_CharcodeSpaces ==
    "charcode" \in Names(query) =>
        LET v == Value(query, "charcode")
            spaced == [i \in DOMAIN v |-> IF v[i] = "," THEN " " ELSE v[i]]
        IN  /\ Contains(Args(query), <<"--charcode", " ">> \o spaced \o <<" ">>)
            /\ \A i \in DOMAIN Args(query) : Args(query)[i] # ","

\* ------------------------------------------- properties of the responses

\* fnt does not enter the output directory of a request
FntSameDirectory ==
    \A k \in Keys :
        outputDir(KeyQuery(k) \o Flag("fnt", TRUE)) = outputDir(KeyQuery(k))

\* C13: after a build without fnt exited with 0 (and no build of the key
\* since or running), a request for the key without nocache spawns nothing;
\* with fnt it is sent atlas.fnt of that build as text/plain, without fnt
\* atlas.png; and fnt does not change the output directory.
C13_FntFromSameDirectory ==
    [][\A k \in Keys :
         /\ FntSameDirectory
         /\ (/\ Arrives(k)
             /\ ~ev'.nocache
             /\ last[k].ev = "ok"
             /\ ~last[k].fnt
             /\ Running(k) = {})
            => (/\ NoSpawn
                /\ ev'.code = 200
                /\ ev'.body = last[k].id
                /\ IF ev'.fnt
                   THEN ev'.file = "atlas.fnt" /\ ev'.ctype = "text/plain"
                   ELSE ev'.file = "atlas.png" /\ ev'.ctype # "text/plain")]_vars

C13_Witness ==
    /\ ev.kind = "request"
    /\ ev.fnt
    /\ ~ev.nocache
    /\ ev.code = 200
    /\ ev.file = "atlas.fnt"
    /\ ev.ctype = "text/plain"
    /\ last[ev.key].ev = "ok"
    /\ ~last[ev.key].fnt
    /\ ev.body = last[ev.key].id

\* C14: when the generator exits with a non-zero code the request is
\* answered 500 with stdout and stderr of the process, and no artifact.
C14_FailureCarriesBothStreams ==
    (ev.kind = "exit" /\ ev.exit # 0)
    => (ev.code = 500 /\ ev.diag = {"stdout", "stderr"} /\ ev.body = NoFile)

\* a query string without glyph selection and font fails validation
EmptyQueryFails == validationErrors(<<>>) # {}

\* C17: a request that fails validation, such as one without glyph
\* selection and font, is answered 400 and nothing else happens: directory,
\* lock marker, files and processes stay as they are.
C17_InvalidRejectedFirst ==
    [][/\ EmptyQueryFails
       /\ (ev'.kind = "request" /\ ev'.errors # {})
          => (/\ ev'.code = 400
              /\ NoSpawn
              /\ UNCHANGED <<dir, lock, files, last, orphan>>)
       /\ (ev'.kind = "request" /\ ev'.code # 400) => ev'.errors = {}]_vars

C17_Witness ==
    /\ ev.kind = "request"
    /\ ev.code = 400
    /\ "one of preset, glyph, charcode required" \in ev.errors
    /\ "either fontname or fontpath required" \in ev.errors
    /\ procs # {}

\* C19: no request without nocache is answered 200 with a file that a
\* failed build wrote.
C19_NoFailedArtifactServed ==
    (ev.kind = "request" /\ ~ev.nocache /\ ev.code = 200) => ev.body > 0

\* C20: a request treated as a cache hit whose file (atlas.fnt with fnt,
\* atlas.png without) is absent gets an error response, not a success.
C20_MissingArtifactIsError ==
    [][\A k \in Keys :
         (/\ Arrives(k)
          /\ Entry(k) = "Ready"
          /\ ~ev'.nocache
          /\ (IF ev'.fnt THEN files[k].fnt ELSE files[k].png) = NoFile)
         => (ev'.code >= 400 /\ ev'.body = NoFile /\ NoSpawn)]_vars

C20_Witness ==
    /\ ev.kind = "request"
    /\ ev.spawns = 0
    /\ ev.code = 404
    /\ Entry(ev.key) = "Ready"
    /\ files[ev.key].png = NoFile

\* ---------------------------------------- properties of the cache state

\* C21: a request that ends as a cache hit or as a lock conflict creates,
\* removes and modifies no directory, lock marker or file, and starts and
\* ends no process.
C21_LookupOnlyReads ==
    [][\A k \in Keys :
         (Arrives(k) /\ (ev'.code = 503 \/ ev'.file # "none"))
         => (UNCHANGED <<dir, lock, files>> /\ NoSpawn)]_vars

C21_Witness ==
    /\ ev.kind = "request"
    /\ ev.code = 503
    /\ ev.from = "Building"
    /\ Running(ev.key) # {}
    /\ Entry(ev.key) = "Building"

\* C22: after the exit of a generator, with whatever code, the lock marker
\* of its entry is absent and the directory present, and the request is
\* answered; when the marker was gone already, directories and markers stay
\* as they were and the request is answered all the same.
C22_UnlockOnExit ==
    [][ev'.kind = "exit" =>
         (/\ ~lock'[ev'.key]
          /\ dir[ev'.key] /\ dir'[ev'.key]
          /\ ev'.code \in {200, 404, 500}
          /\ ~lock[ev'.key] => (lock' = lock /\ dir' = dir))]_vars

C22_Witness ==
    /\ ev.kind = "exit"
    /\ ev.ignorelock
    /\ ev.from = "Building"
    /\ ev.id = 2
    /\ nbuilds = 2
    /\ procs = {}
    /\ orphan[ev.key] = "no"
    /\ ev.code = 200
    /\ Entry(ev.key) = "Ready"

\* The responses of the route: 400, 503, 500, or a file sent with 200.
IsResponse(e) ==
    \/ e.code \in {400, 503, 500}
    \/ e.code = 200 /\ e.body # NoFile

\* C23: with every spawned generator exiting at some time, each request is
\* answered exactly once, with 400, 503, 500 or a served file: in the
\* handler, or else it waits for its generator and is answered when that
\* exits.
C23_ExactlyOneResponse ==
    /\ [][ev'.kind = "request" =>
            \/ IsResponse(ev') /\ procs' = procs
            \/ /\ ev'.code = 0
               /\ \E p \in procs' \ procs : p.id = ev'.id /\ procs' = procs \cup {p}]_vars
    /\ [][ev'.kind = "exit" =>
            /\ IsResponse(ev')
            /\ \E p \in procs : p.id = ev'.id /\ procs' = procs \ {p}]_vars
    /\ \A id \in 1..MaxBuilds :
          (\E p \in procs : p.id = id) ~> (ev.kind = "exit" /\ ev.id = id)

\* C24: a request spawns at most one generator: the handler at most one,
\* the callback none, and no request in flight has had more than one.
C24_NoRetry ==
    [][/\ ev'.kind = "request" =>
            /\ ev'.spawns \in {0, 1}
            /\ nbuilds' = nbuilds + ev'.spawns
            /\ Cardinality(procs') = Cardinality(procs) + ev'.spawns
       /\ ev'.kind = "exit" =>
            /\ ev'.spawns = 1
            /\ nbuilds' = nbuilds
            /\ \E p \in procs : p.id = ev'.id /\ procs' = procs \ {p}
       /\ \A p \in procs' : p.spawns = 1]_vars

C24_Witness ==
    /\ ev.kind = "exit"
    /\ ev.exit # 0
    /\ ev.code = 500
    /\ ev.spawns = 1
    /\ nbuilds = 1
    /\ procs = {}

\* C26: without a crash of the service, a key for which no generator is
\* running has no lock marker.
C26_NoProcessNoLock ==
    \A k \in Keys : Running(k) = {} => ~lock[k]

C26_Witness ==
    /\ ev.kind = "exit"
    /\ ev.nocache
    /\ ev.from = "Building"
    /\ nbuilds = 2
    /\ procs = {}
    /\ Entry(ev.key) = "Ready"

\* C27: when no request sets nocache or ignorelock, a key for which a
\* generator is running has its lock marker, and no request is answered from
\* the directory of a key whose generator is running.
C27_ProcessHoldsLock ==
    /\ \A k \in Keys : Running(k) # {} => lock[k]
    /\ (ev.kind = "request" /\ ev.file # "none") => Running(ev.key) = {}

C27_Witness ==
    /\ ev.kind = "request"
    /\ ev.code = 503
    /\ Running(ev.key) # {}
    /\ lock[ev.key]
    /\ nbuilds = 2

\* C28: a directory, once created, exists in every later state, also after
\* a failed build, and a lock marker exists only in an existing directory.
C28_DirectoryStays ==
    [][\A k \in Keys :
         /\ dir[k] => dir'[k]
         /\ lock'[k] => dir'[k]
         /\ (ev'.kind = "exit" /\ ev'.key = k /\ ev'.exit # 0) => Entry(k)' # "Absent"]_vars

C28_Witness ==
    /\ ev.kind = "exit"
    /\ ev.exit # 0
    /\ ev.code = 500
    /\ dir[ev.key]
    /\ ~lock[ev.key]
    /\ files[ev.key].png = NoFile

====
